---------------------------- MODULE Spec2Model ----------------------------
(***************************************************************************)
(* A model of src/regex/regex.c: the validating counter _count, the three  *)
(* passes of _set_jump and the two-stack simulator of match.               *)
(*                                                                         *)
(* Characters are their byte values.  The two malloc'd blocks are modelled *)
(* as the code lays them out: an int region followed by a char region, the *)
(* arrays of the code being offsets into them.  An access that leaves its  *)
(* block takes the call to the outcome pc = "undefined".                   *)
(***************************************************************************)
EXTENDS Integers, Sequences, FiniteSets, TLC

(***************************************************************************)
(* Bounds of the model.                                                    *)
(***************************************************************************)
MaxRegexLen == 3
MaxStringLen == 2

(***************************************************************************)
(* Program constants.                                                      *)
(***************************************************************************)
EXIT_TOKEN == -1
REGEX_NO_TOKENS_ERROR == -1
REGEX_UNCLOSED_GROUP_ERROR == -2
REGEX_SYNTAX_ERROR == -3
REGEX_EMPTY_GROUP_ERROR == -4
STRING_EMPTY_ERROR == -5
DEFAULT_GROUP_MOD == 32

NUL == 0
LPAREN == 40
RPAREN == 41
STAR == 42
DOT == 46
QMARK == 63
LBRACK == 91
RBRACK == 93
LBRACE == 123
BAR == 124
RBRACE == 125

Openers == {LPAREN, LBRACK, LBRACE}
Closers == {RPAREN, RBRACK, RBRACE}
Modifiers == {STAR, QMARK, BAR}

(***************************************************************************)
(* regex[i] and string[i] of the code: the byte at offset i of a           *)
(* null-terminated array, held here as a sequence without its terminator.  *)
(***************************************************************************)
CharAt(str, i) == IF i >= 0 /\ i < Len(str) THEN str[i + 1] ELSE NUL

(***************************************************************************)
(* _count                                                                  *)
(***************************************************************************)
\* CountError with the offset not moved past zero, a fault for C6 to find.
CountErrorOffByOne(i, code) == [tokens |-> -i, groups |-> code]

CountError(i, code) == [tokens |-> -i - 1, groups |-> code]

\* The loop over the members of a character set, lines 174-182.
RECURSIVE CountSet(_, _)
CountSet(regex, s) ==
    LET token == CharAt(regex, s.i) IN
    IF token # NUL /\ token # RBRACK
    THEN CountSet(regex, [s EXCEPT !.tokens = s.tokens + 1,
                                   !.tokens_in_group = s.tokens_in_group + 1,
                                   !.i = s.i + 1,
                                   !.pt = token])
    ELSE s

\* SyntaxError without '{' among the bytes that a modifier may not follow, a
\* fault for C9 to find.
SyntaxErrorNoBrace(i, token, pt, next) ==
    \/ i = 0 /\ token \in {RPAREN, RBRACK, RBRACE, STAR, QMARK, BAR}
    \/ i > 0 /\ token \in {STAR, QMARK}
              /\ pt \in {STAR, QMARK, LPAREN, BAR}
    \/ i > 0 /\ pt = BAR /\ token \in {RPAREN, RBRACK, RBRACE}
    \/ token = BAR /\ next = NUL

\* The test for an invalid regular expression, lines 201-212.
SyntaxError(i, token, pt, next) ==
    \/ i = 0 /\ token \in {RPAREN, RBRACK, RBRACE, STAR, QMARK, BAR}
    \/ i > 0 /\ token \in {STAR, QMARK}
             /\ pt \in {STAR, QMARK, LPAREN, LBRACE, BAR}
    \/ i > 0 /\ pt = BAR /\ token \in {RPAREN, RBRACK, RBRACE}
    \/ token = BAR /\ next = NUL

\* BadClose without the test for empty braces, a fault for C10 to find.
BadCloseNoBrace(gc, groups, token, pt) ==
    \/ gc > groups
    \/ token = RPAREN /\ pt = LPAREN

\* The test made when a group closes, lines 220-222.
BadClose(gc, groups, token, pt) ==
    \/ gc > groups
    \/ token = RPAREN /\ pt = LPAREN
    \/ token = RBRACE /\ pt = LBRACE

\* The code returned for unclosed groups, lines 186 and 239.
UnclosedCode == REGEX_UNCLOSED_GROUP_ERROR

\* The main loop, lines 164-243.
RECURSIVE CountLoop(_, _)
CountLoop(regex, s) ==
    LET token == CharAt(regex, s.i) IN
    IF token = NUL
    THEN IF s.gc # s.groups
         THEN CountError(s.i, UnclosedCode)
         ELSE [tokens |-> s.tokens, groups |-> s.groups]
    ELSE IF token = LBRACK
    THEN LET e == CountSet(regex, [i |-> s.i + 1, tokens |-> s.tokens,
                                   tokens_in_group |-> 0, pt |-> token])
         IN  IF CharAt(regex, e.i) = NUL
             THEN CountError(e.i, UnclosedCode)
             ELSE IF e.tokens_in_group = 0
             THEN CountError(e.i, REGEX_EMPTY_GROUP_ERROR)
             ELSE CountLoop(regex, [i |-> e.i + 1, tokens |-> e.tokens,
                                    groups |-> s.groups + 1, gc |-> s.gc + 1,
                                    pt |-> CharAt(regex, e.i)])
    ELSE IF token \in {LPAREN, LBRACE}
    THEN CountLoop(regex, [s EXCEPT !.groups = s.groups + 1,
                                    !.i = s.i + 1, !.pt = token])
    ELSE IF SyntaxError(s.i, token, s.pt, CharAt(regex, s.i + 1))
    THEN CountError(s.i, REGEX_SYNTAX_ERROR)
    ELSE IF token \in {RPAREN, RBRACE}
    THEN IF BadClose(s.gc + 1, s.groups, token, s.pt)
         THEN CountError(s.i, REGEX_EMPTY_GROUP_ERROR)
         ELSE CountLoop(regex, [s EXCEPT !.gc = s.gc + 1,
                                         !.i = s.i + 1, !.pt = token])
    ELSE CountLoop(regex, [s EXCEPT !.tokens = s.tokens + 1,
                                    !.i = s.i + 1, !.pt = token])

\* _count(regex, &tokens, &groups), lines 155-244.
Count(regex) ==
    CountLoop(regex, [i |-> 0, tokens |-> 0, groups |-> 0, gc |-> 0, pt |-> NUL])

(***************************************************************************)
(* Memory.  A block is what one malloc returns: `I`, its leading ints,     *)
(* `C`, the chars that follow them, and `V` and `U`, the ints and the      *)
(* chars never written.  An int stored past the int region lands on four   *)
(* chars (little-endian, two's complement); an access past the last char   *)
(* is outside the block.                                                   *)
(***************************************************************************)
NewBlock(n_int, n_chr) ==
    [I |-> [k \in 0 .. n_int - 1 |-> 0],
     C |-> [k \in 0 .. n_chr - 1 |-> 0],
     V |-> 0 .. n_int - 1,
     U |-> 0 .. n_chr - 1]

NoBlock == NewBlock(0, 0)

NInt(b) == Cardinality(DOMAIN b.I)
NChr(b) == Cardinality(DOMAIN b.C)

\* The four bytes of a 32-bit int, least significant first.
ByteOf(v, n) ==
    LET d == IF n = 0 THEN 1 ELSE IF n = 1 THEN 256
             ELSE IF n = 2 THEN 65536 ELSE 16777216
    IN  IF v >= 0 THEN (v \div d) % 256
        ELSE 255 - (((-v - 1) \div d) % 256)

IntOfBytes(b0, b1, b2, b3) ==
    IF b3 < 128
    THEN b0 + 256 * b1 + 65536 * b2 + 16777216 * b3
    ELSE -((255 - b0) + 256 * (255 - b1) + 65536 * (255 - b2)
           + 16777216 * (255 - b3)) - 1

\* Whether the int at index k lies inside block b.
IntInside(b, k) ==
    /\ k >= 0
    /\ k >= NInt(b) => k - NInt(b) < NChr(b) \div 4

\* Whether the int at index k of block b can be read: inside, and written.
IntReadable(b, k) ==
    /\ IntInside(b, k)
    /\ k < NInt(b) => k \notin b.V
    /\ k >= NInt(b) =>
         \A n \in 0 .. 3 : (4 * (k - NInt(b)) + n) \notin b.U

GetInt(b, k) ==
    IF k < NInt(b) THEN b.I[k]
    ELSE LET c0 == 4 * (k - NInt(b))
         IN  IntOfBytes(b.C[c0], b.C[c0 + 1], b.C[c0 + 2], b.C[c0 + 3])

PutInt(b, k, v) ==
    IF k < NInt(b) THEN [b EXCEPT !.I[k] = v, !.V = b.V \ {k}]
    ELSE LET c0 == 4 * (k - NInt(b))
         IN  [b EXCEPT !.C = [c \in DOMAIN b.C |->
                                 IF c \in c0 .. c0 + 3
                                 THEN ByteOf(v, c - c0) ELSE b.C[c]],
                       !.U = b.U \ (c0 .. c0 + 3)]

ChrInside(b, k) == k >= 0 /\ k < NChr(b)
ChrReadable(b, k) == ChrInside(b, k) /\ k \notin b.U
GetChr(b, k) == b.C[k]
PutChr(b, k, v) == [b EXCEPT !.C[k] = v, !.U = b.U \ {k}]

(***************************************************************************)
(* The arrays of the code, as offsets into the two blocks.  `m` holds the  *)
(* machine: the block of match (mb), the block of _set_jump (sb), the      *)
(* counts, and which of the two stack regions is the current one.          *)
(***************************************************************************)
IntArrays == {"jumps", "jumpf", "active", "cstack", "nstack",
              "group_starts", "group_nexts", "gi_stack", "gc_stack", "redirect"}
MatchArrays == {"jumps", "jumpf", "active", "cstack", "nstack",
                "tokens", "jumpi", "incs", "inns"}

\* Lines 668-676 (match) and 253-259 (_set_jump).
Base(m, arr) ==
    LET T == m.n_tokens
        G == m.n_groups
    IN  CASE arr = "jumps"  -> 0
          [] arr = "jumpf"  -> T
          [] arr = "active" -> 2 * T
          [] arr = "cstack" -> IF m.swapped THEN 4 * T + 1 ELSE 3 * T + 1
          [] arr = "nstack" -> IF m.swapped THEN 3 * T + 1 ELSE 4 * T + 1
          [] arr = "tokens" -> 0
          [] arr = "jumpi"  -> T + 1
          [] arr = "incs"   -> IF m.swapped THEN 3 * T + 1 ELSE 2 * T + 1
          [] arr = "inns"   -> IF m.swapped THEN 2 * T + 1 ELSE 3 * T + 1
          [] arr = "group_starts" -> 0
          [] arr = "group_nexts"  -> G
          [] arr = "gi_stack"     -> 2 * G
          [] arr = "gc_stack"     -> 3 * G
          [] arr = "redirect"     -> 4 * G + 1
          [] arr = "s_stack"      -> 0
          [] arr = "g_mods"       -> G

BlockOf(m, arr) == IF arr \in MatchArrays THEN m.mb ELSE m.sb

\* Whether cell k of block b, an int or a char, can be written, and read.
Inside(b, int, k) == IF int THEN IntInside(b, k) ELSE ChrInside(b, k)
Readable(b, int, k) == IF int THEN IntReadable(b, k) ELSE ChrReadable(b, k)

\* The cell read; a read that cannot be made yields 0 and is flagged by Check.
Get(b, int, k) ==
    IF ~Readable(b, int, k) THEN 0
    ELSE IF int THEN GetInt(b, k) ELSE GetChr(b, k)

Put(b, int, k, v) == IF int THEN PutInt(b, k, v) ELSE PutChr(b, k, v)

\* Whether arr[j] can be read, and written.
CanLoad(m, arr, j) ==
    Readable(BlockOf(m, arr), arr \in IntArrays, Base(m, arr) + j)

CanStore(m, arr, j) ==
    Inside(BlockOf(m, arr), arr \in IntArrays, Base(m, arr) + j)

\* arr[j].
Load(m, arr, j) == Get(BlockOf(m, arr), arr \in IntArrays, Base(m, arr) + j)

\* The write of cell k; a write outside the block marks the machine undefined.
Write(m, inMatch, int, k, v) ==
    IF m.ub THEN m
    ELSE IF ~Inside(IF inMatch THEN m.mb ELSE m.sb, int, k)
    THEN [m EXCEPT !.ub = TRUE]
    ELSE IF inMatch THEN [m EXCEPT !.mb = Put(@, int, k, v)]
    ELSE [m EXCEPT !.sb = Put(@, int, k, v)]

\* arr[j] = v.
Store(m, arr, j, v) ==
    Write(m, arr \in MatchArrays, arr \in IntArrays, Base(m, arr) + j, v)

\* Marks the machine undefined unless the loads a step makes can be made.
Check(m, ok) == IF ok THEN m ELSE [m EXCEPT !.ub = TRUE]

(***************************************************************************)
(* _set_jump.  The locals of the function (i, nt, ng, gi, iga, igc, cgs,   *)
(* gx, neg) are fields of the machine.                                     *)
(***************************************************************************)

\* malloc and the initial values of the group tables, lines 253-274.
RECURSIVE InitGroups(_, _)
InitGroups(m, j) ==
    IF j >= m.n_groups THEN m
    ELSE InitGroups(
           Store(Store(Store(Store(Store(Store(Store(m,
             "group_starts", j, EXIT_TOKEN),
             "group_nexts", j, EXIT_TOKEN),
             "gi_stack", j, EXIT_TOKEN),
             "gc_stack", j, EXIT_TOKEN),
             "s_stack", j, DEFAULT_GROUP_MOD),
             "g_mods", j, DEFAULT_GROUP_MOD),
             "redirect", j, j),
           j + 1)

RECURSIVE InitRedirect(_, _)
InitRedirect(m, j) ==
    IF j > m.n_tokens THEN m
    ELSE InitRedirect(Store(m, "redirect", j, j), j + 1)

SetJumpAlloc(m) ==
    LET m0 == [m EXCEPT !.sb = NewBlock(4 * m.n_groups + m.n_tokens + 2,
                                        2 * m.n_groups)]
        m1 == InitGroups(m0, 0)
        m2 == InitRedirect(m1, m.n_groups)
    IN  Store(m2, "redirect", EXIT_TOKEN, EXIT_TOKEN)

\* The locals at the start of a pass, lines 281-288, 377-385 and 503-511.
StartPass(m) ==
    [m EXCEPT !.i = 0, !.nt = 0, !.ng = 0, !.gi = -1, !.iga = -1,
              !.igc = -1, !.cgs = NUL, !.gx = 0, !.neg = 0]

\* The tests that open and close a group, the same in the three passes.
OpensGroup(m, token) == token \in Openers /\ m.cgs # LBRACK

ClosesGroup(m, token) ==
    /\ m.iga >= 0
    /\ \/ m.cgs = LPAREN /\ token = RPAREN
       \/ m.cgs = LBRACK /\ token = RBRACK
       \/ m.cgs = LBRACE /\ token = RBRACE

\* Push the group index and its start character, lines 294-300.
PushGroup(m, token) ==
    LET m1 == [m EXCEPT !.gi = m.ng, !.cgs = token, !.ng = m.ng + 1,
                        !.iga = m.iga + 1]
    IN  Store(Store(m1, "gi_stack", m1.iga, m1.gi), "s_stack", m1.iga, token)

\* Pop the previous group index and start character, lines 316-323.
PopGroup(m) ==
    LET iga == m.iga - 1 IN
    IF iga >= 0
    THEN Check([m EXCEPT !.iga = iga,
                         !.gi = Load(m, "gi_stack", iga),
                         !.cgs = Load(m, "s_stack", iga)],
               CanLoad(m, "gi_stack", iga) /\ CanLoad(m, "s_stack", iga))
    ELSE [m EXCEPT !.iga = iga, !.gi = -1, !.cgs = NUL]

\* Whether a byte is stored as a token of its own, lines 327, 449 and 614.
StoredToken(m, token) == m.cgs = LBRACK \/ token \notin Modifiers

\* group_nexts[gc_stack[j]] = nt for the groups waiting, lines 329-332.
RECURSIVE SetNexts(_, _)
SetNexts(m, j) ==
    IF m.ub \/ j > m.igc THEN [m EXCEPT !.igc = -1]
    ELSE SetNexts(Check(Store(m, "group_nexts", Load(m, "gc_stack", j), m.nt),
                        CanLoad(m, "gc_stack", j)),
                  j + 1)

\* The start of a group is the next token, line 301.
GroupStart(a) == Store(a, "group_starts", a.gi, a.nt)

\* The group that closes waits for its next token and takes the modifier
\* that follows it, lines 307-314.
GroupClosed(a, nx_token) ==
    IF nx_token \in Modifiers THEN Store(a, "g_mods", a.gi, nx_token) ELSE a

\* A token and its default jumps, lines 334-338.
DefaultToken(a, token) ==
    [Store(Store(Store(Store(a,
       "tokens", a.nt, token),
       "jumps", a.nt, a.nt + 1),
       "jumpf", a.nt, EXIT_TOKEN),
       "jumpi", a.nt, 0)
     EXCEPT !.nt = @ + 1]

\* One turn of the loop of the first pass, lines 291-343.
FirstPassStep(regex, m) ==
    LET token == CharAt(regex, m.i)
        nx_token == CharAt(regex, m.i + 1)
    IN  [(IF OpensGroup(m, token)
          THEN GroupStart(PushGroup(m, token))
          ELSE IF ClosesGroup(m, token)
          THEN PopGroup(GroupClosed(Store([m EXCEPT !.igc = @ + 1],
                                          "gc_stack", m.igc + 1, m.gi),
                                    nx_token))
          ELSE DefaultToken(IF StoredToken(m, token)
                            THEN SetNexts(m, 0) ELSE m,
                            token))
         EXCEPT !.i = @ + 1]

RECURSIVE FirstPassLoop(_, _)
FirstPassLoop(regex, m) ==
    IF m.ub \/ CharAt(regex, m.i) = NUL THEN m
    ELSE FirstPassLoop(regex, FirstPassStep(regex, m))

\* The first pass, lines 281-348.
FirstPass(regex, m) == SetNexts(FirstPassLoop(regex, StartPass(m)), 0)

\* group_nexts[j]++ for the groups inside the one that closes, lines 421-423.
RECURSIVE ShiftNexts(_, _, _)
ShiftNexts(m, j, last_in_group) ==
    IF m.ub \/ j >= m.ng THEN m
    ELSE ShiftNexts(
           Check(IF Load(m, "group_nexts", j) < last_in_group
                 THEN Store(m, "group_nexts", j, Load(m, "group_nexts", j) + 1)
                 ELSE m,
                 CanLoad(m, "group_nexts", j)),
           j + 1, last_in_group)

\* The start of a group moves by the modifiers placed before it, line 391.
ShiftStart(m) ==
    IF m.gx > 0
    THEN Check(Store(m, "group_starts", m.ng,
                     Load(m, "group_starts", m.ng) + m.gx),
               CanLoad(m, "group_starts", m.ng))
    ELSE m

\* The modifier of a group is placed in front of the group, lines 402-407.
PlaceGroupMod(b) ==
    IF b.ub \/ ~CanLoad(b, "g_mods", b.gi) THEN [b EXCEPT !.ub = TRUE]
    ELSE IF Load(b, "g_mods", b.gi) # DEFAULT_GROUP_MOD
    THEN [Store(b, "tokens", b.nt, Load(b, "g_mods", b.gi))
          EXCEPT !.gx = @ + 1, !.nt = @ + 1]
    ELSE b

\* A modified group that closes moves the groups inside it, lines 415-424.
CloseGroupMod(m) ==
    IF ~CanLoad(m, "g_mods", m.gi) THEN [m EXCEPT !.ub = TRUE]
    ELSE IF Load(m, "g_mods", m.gi) # DEFAULT_GROUP_MOD
    THEN ShiftNexts([m EXCEPT !.gx = @ - 1], m.gi, m.nt - 1)
    ELSE m

\* The modifier that follows a token is stored in front of it, 438-447.
PlaceTokenMod(m, token, nx_token) ==
    IF m.cgs # LBRACK /\ nx_token \in Modifiers
    THEN Store([Store(m, "tokens", m.nt, nx_token)
                EXCEPT !.nt = @ + 1, !.i = @ + 1],
               "tokens", m.nt + 2, token)
    ELSE m

\* The token is stored unless it is a modifier stored earlier, 449-452.
PlaceToken(a, token) ==
    IF StoredToken(a, token)
    THEN [Store(a, "tokens", a.nt, token) EXCEPT !.nt = @ + 1]
    ELSE a

\* One turn of the loop of the second pass, lines 386-458.
SecondPassStep(regex, m) ==
    LET token == CharAt(regex, m.i)
        nx_token == CharAt(regex, m.i + 1)
    IN  [(IF OpensGroup(m, token)
          THEN PlaceGroupMod(PushGroup(ShiftStart(m), token))
          ELSE IF ClosesGroup(m, token)
          THEN PopGroup(CloseGroupMod(m))
          ELSE IF m.nt < m.n_tokens
          THEN PlaceToken(PlaceTokenMod(m, token, nx_token), token)
          ELSE m)
         EXCEPT !.i = @ + 1]

RECURSIVE SecondPassLoop(_, _)
SecondPassLoop(regex, m) ==
    IF m.ub \/ CharAt(regex, m.i) = NUL THEN m
    ELSE SecondPassLoop(regex, SecondPassStep(regex, m))

\* The second pass, lines 377-458.
SecondPass(regex, m) == SecondPassLoop(regex, StartPass(m))

\* SET_JUMP without the exchange under negation, a fault for C20 to find.
SET_JUMP_EVEN(m, k, sd, fd) ==
    IF ~(CanLoad(m, "redirect", sd) /\ CanLoad(m, "redirect", fd))
    THEN [m EXCEPT !.ub = TRUE]
    ELSE Store(Store(m, "jumps", k, Load(m, "redirect", sd)),
               "jumpf", k, Load(m, "redirect", fd))

\* The macro SET_JUMP(i, s, f), lines 490-497.
SET_JUMP(m, k, sd, fd) ==
    IF ~(CanLoad(m, "redirect", sd) /\ CanLoad(m, "redirect", fd))
    THEN [m EXCEPT !.ub = TRUE]
    ELSE IF m.neg # 0
    THEN Store(Store(m, "jumps", k, Load(m, "redirect", fd)),
               "jumpf", k, Load(m, "redirect", sd))
    ELSE Store(Store(m, "jumps", k, Load(m, "redirect", sd)),
               "jumpf", k, Load(m, "redirect", fd))

\* The search for a group that starts right after a '|', lines 536-537.
RECURSIVE FindGroup(_, _, _)
FindGroup(m, j, nxt) ==
    IF j < m.n_groups /\ CanLoad(m, "group_starts", j)
                      /\ Load(m, "group_starts", j) < nxt
    THEN FindGroup(m, j + 1, nxt)
    ELSE j

\* redirect[nt] = nt, and nt++ when the token is one that is stored,
\* lines 529-530, 590-591 and 612-616.
RedirectToken(a, stored) ==
    [Store(a, "redirect", a.nt, a.nt)
     EXCEPT !.nt = IF stored THEN @ + 1 ELSE @]

\* The redirection of a group modified by '|', to after the group j that
\* follows or to after the token that follows, lines 534-543.
BarRedirect(c, j, nxt) ==
    IF c.ub \/ ~(j >= c.n_groups \/ CanLoad(c, "group_starts", j))
    THEN [c EXCEPT !.ub = TRUE]
    ELSE IF j < c.n_groups /\ Load(c, "group_starts", j) = nxt
    THEN Check(Store(c, "redirect", nxt, Load(c, "group_nexts", j)),
               CanLoad(c, "group_nexts", j))
    ELSE Store(c, "redirect", nxt, nxt + 1)

\* The redirection a group modifier sets, lines 531-544.
GroupRedirect(c, mod, nxt) ==
    IF mod = STAR THEN Store(c, "redirect", nxt, c.nt - 1)
    ELSE IF mod = BAR THEN BarRedirect(c, FindGroup(c, c.gi + 1, nxt), nxt)
    ELSE c

\* The jumps of the modifier mod of a group whose next token is nxt,
\* lines 526-544.
GroupJumps(a, mod, nxt) ==
    GroupRedirect(
      RedirectToken(IF a.neg # 0 THEN SET_JUMP(a, a.nt, nxt, a.nt + 1)
                    ELSE SET_JUMP(a, a.nt, a.nt + 1, nxt),
                    TRUE),
      mod, nxt)

\* The jumps of a group modifier and the redirection it sets, lines 525-545.
GroupModifier(m) ==
    IF m.ub \/ ~CanLoad(m, "g_mods", m.gi) THEN [m EXCEPT !.ub = TRUE]
    ELSE IF Load(m, "g_mods", m.gi) = DEFAULT_GROUP_MOD THEN m
    ELSE IF ~CanLoad(m, "group_nexts", m.gi) THEN [m EXCEPT !.ub = TRUE]
    ELSE GroupJumps(m, Load(m, "g_mods", m.gi), Load(m, "group_nexts", m.gi))

\* (neg + 1) % 2, lines 547 and 555.
Toggle(neg) == (neg + 1) % 2

\* SetToken with the two destinations of the last token of a set
\* exchanged, a fault for C17 to find.
SetTokenLastExits(m, nx_token) ==
    IF nx_token # RBRACK /\ m.neg # 0
    THEN SET_JUMP(Store(m, "jumpi", m.nt, 1), m.nt, m.nt + 1, EXIT_TOKEN)
    ELSE IF ~CanLoad(m, "group_nexts", m.gi) THEN [m EXCEPT !.ub = TRUE]
    ELSE IF nx_token = RBRACK
    THEN SET_JUMP(Store(m, "jumpi", m.nt, 2), m.nt,
                  EXIT_TOKEN, Load(m, "group_nexts", m.gi))
    ELSE SET_JUMP(Store(m, "jumpi", m.nt, 1), m.nt,
                  Load(m, "group_nexts", m.gi), m.nt + 1)

\* The jumps of a token inside a token set, lines 572-586.
SetToken(m, nx_token) ==
    IF nx_token # RBRACK /\ m.neg # 0
    THEN SET_JUMP(Store(m, "jumpi", m.nt, 1), m.nt, m.nt + 1, EXIT_TOKEN)
    ELSE IF ~CanLoad(m, "group_nexts", m.gi) THEN [m EXCEPT !.ub = TRUE]
    ELSE IF nx_token = RBRACK
    THEN SET_JUMP(Store(m, "jumpi", m.nt, 2), m.nt,
                  Load(m, "group_nexts", m.gi), EXIT_TOKEN)
    ELSE SET_JUMP(Store(m, "jumpi", m.nt, 1), m.nt,
                  Load(m, "group_nexts", m.gi), m.nt + 1)

\* The jump of the token that follows its modifier, lines 592-607.
AfterModifier(regex, b, nx_token) ==
    IF b.ub THEN b
    ELSE IF nx_token = STAR THEN SET_JUMP(b, b.nt, b.nt - 1, EXIT_TOKEN)
    ELSE IF nx_token = BAR
    THEN IF CharAt(regex, b.i + 1) \in Openers
         THEN IF CanLoad(b, "group_nexts", b.ng + 1)
              THEN SET_JUMP(b, b.nt, Load(b, "group_nexts", b.ng + 1),
                            EXIT_TOKEN)
              ELSE [b EXCEPT !.ub = TRUE]
         ELSE SET_JUMP(b, b.nt, b.nt + 2, EXIT_TOKEN)
    ELSE SET_JUMP(b, b.nt, b.nt + 1, EXIT_TOKEN)

\* The jumps of a token followed by a modifier, lines 589-607.
ModifiedToken(regex, m, nx_token) ==
    AfterModifier(
      regex,
      [RedirectToken(SET_JUMP(m, m.nt, m.nt + (IF m.neg # 0 THEN 2 ELSE 1),
                                       m.nt + (IF m.neg # 0 THEN 1 ELSE 2)),
                     TRUE)
       EXCEPT !.i = @ + 1],
      nx_token)

\* The jumps of a token, lines 566-611.
TokenJumps(regex, m, nx_token) ==
    IF m.cgs = LBRACK THEN SetToken(m, nx_token)
    ELSE IF nx_token \in Modifiers THEN ModifiedToken(regex, m, nx_token)
    ELSE SET_JUMP(m, m.nt, m.nt + 1, EXIT_TOKEN)

\* One turn of the loop of the third pass, lines 512-622.
ThirdPassStep(regex, m) ==
    LET token == CharAt(regex, m.i)
        nx_token == CharAt(regex, m.i + 1)
    IN  [(IF OpensGroup(m, token)
          THEN [GroupModifier(PushGroup(m, token))
                EXCEPT !.neg = IF token = LBRACE THEN Toggle(@) ELSE @]
          ELSE IF ClosesGroup(m, token)
          THEN PopGroup([m EXCEPT !.neg = IF token = RBRACE
                                          THEN Toggle(@) ELSE @])
          ELSE IF m.nt < m.n_tokens
          THEN RedirectToken(TokenJumps(regex, m, nx_token),
                             StoredToken(m, token))
          ELSE m)
         EXCEPT !.i = @ + 1]

\* The indices at which the modifier of the group that opens at m reads
\* group_nexts and group_starts, lines 525-544: index gi, and for '|' the
\* indices gi + 1 .. j of the search of lines 536-539.
ModifierReads(m) ==
    IF ~CanLoad(m, "g_mods", m.ng) \/ ~CanLoad(m, "group_nexts", m.ng)
       \/ Load(m, "g_mods", m.ng) = DEFAULT_GROUP_MOD
    THEN {}
    ELSE IF Load(m, "g_mods", m.ng) # BAR THEN {m.ng}
    ELSE {m.ng} \cup
         {j \in m.ng + 1 .. m.n_groups - 1 :
            j <= FindGroup(m, m.ng + 1, Load(m, "group_nexts", m.ng))}

\* The indices at which the turn of the third pass at m reads group_nexts
\* and group_starts, lines 527-540, 576, 584 and 600.
GroupReads(regex, m) ==
    LET token == CharAt(regex, m.i)
        nx_token == CharAt(regex, m.i + 1)
    IN  IF OpensGroup(m, token) THEN ModifierReads(m)
        ELSE IF ClosesGroup(m, token) \/ m.nt >= m.n_tokens THEN {}
        ELSE IF m.cgs = LBRACK
        THEN IF nx_token # RBRACK /\ m.neg # 0 THEN {} ELSE {m.gi}
        ELSE IF nx_token = BAR /\ CharAt(regex, m.i + 2) \in Openers
        THEN {m.ng + 1}
        ELSE {}

\* The machines at the head of the loop of the third pass, from m on.
RECURSIVE ThirdPassHeads(_, _)
ThirdPassHeads(regex, m) ==
    IF m.ub \/ CharAt(regex, m.i) = NUL THEN {}
    ELSE {m} \cup ThirdPassHeads(regex, ThirdPassStep(regex, m))

\* The instructions the turn of the third pass at m wires, with the kind of
\* each: the hoisted modifier of a group (lines 525-528) or of a token
\* (line 589), a token of a set that is not its last (lines 578-585), and
\* the others (lines 576, 593-606 and 610).
Wired(regex, m) ==
    LET token == CharAt(regex, m.i)
        nx_token == CharAt(regex, m.i + 1)
    IN  IF OpensGroup(m, token)
        THEN IF CanLoad(m, "g_mods", m.ng)
                /\ Load(m, "g_mods", m.ng) # DEFAULT_GROUP_MOD
             THEN {<<m.nt, "modifier">>} ELSE {}
        ELSE IF ClosesGroup(m, token) \/ m.nt >= m.n_tokens THEN {}
        ELSE IF m.cgs = LBRACK
        THEN IF nx_token = RBRACK THEN {<<m.nt, "token">>}
             ELSE {<<m.nt, "interior">>}
        ELSE IF nx_token \in Modifiers
        THEN {<<m.nt, "modifier">>, <<m.nt + 1, "token">>}
        ELSE {<<m.nt, "token">>}

\* The indices the third pass reads from m on.
RECURSIVE ThirdPassReads(_, _)
ThirdPassReads(regex, m) ==
    IF m.ub \/ CharAt(regex, m.i) = NUL THEN {}
    ELSE GroupReads(regex, m)
           \cup ThirdPassReads(regex, ThirdPassStep(regex, m))

RECURSIVE ThirdPassLoop(_, _)
ThirdPassLoop(regex, m) ==
    IF m.ub \/ CharAt(regex, m.i) = NUL THEN m
    ELSE ThirdPassLoop(regex, ThirdPassStep(regex, m))

\* The third pass without the release of the group tables, a fault for C28
\* to find.
ThirdPassKeepsTables(regex, m) == ThirdPassLoop(regex, StartPass(m))

\* The third pass and the release of the group tables, lines 503-639.
ThirdPass(regex, m) ==
    [ThirdPassLoop(regex, StartPass(m)) EXCEPT !.sb = NoBlock]

(***************************************************************************)
(* match                                                                   *)
(***************************************************************************)

\* The machine before any block is allocated.
NoMachine ==
    [n_tokens |-> 0, n_groups |-> 0, mb |-> NoBlock, sb |-> NoBlock,
     swapped |-> FALSE, ub |-> FALSE,
     i |-> 0, nt |-> 0, ng |-> 0, gi |-> -1, iga |-> -1, igc |-> -1,
     cgs |-> NUL, gx |-> 0, neg |-> 0]

\* malloc of the block of match and its two terminators, lines 667-679.
MatchAlloc(T, G) ==
    LET m0 == [NoMachine EXCEPT !.n_tokens = T, !.n_groups = G,
                                !.mb = NewBlock(5 * T + 1, 4 * T + 2)]
    IN  Store(Store(m0, "tokens", T, NUL), "jumpi", T, NUL)

\* Both '?' and '|' become '*' outside token sets, lines 707-708.
Unify(ji, token) ==
    IF ji # 1 /\ token \in {QMARK, BAR} THEN STAR ELSE token

\* All tokens inactive and in no stack, lines 704-712.
RECURSIVE InitTokens(_, _)
InitTokens(m, j) ==
    IF m.ub \/ j >= m.n_tokens THEN m
    ELSE LET a == Check(m, CanLoad(m, "jumpi", j) /\ CanLoad(m, "tokens", j))
             b == Store(a, "tokens", j,
                        Unify(Load(m, "jumpi", j), Load(m, "tokens", j)))
         IN  InitTokens(Store(Store(Store(b, "active", j, EXIT_TOKEN),
                                    "incs", j, 0), "inns", j, 0),
                        j + 1)

\* The state of the simulator before the first character, lines 703-722.
InitMatch(m) ==
    LET a == InitTokens(Store(m, "active", m.n_tokens, EXIT_TOKEN), 0)
    IN  Store(Store(Store(a, "cstack", 0, 0), "active", 0, 0), "incs", 0, 1)

\* MatchEnd counted from i + 1, a fault for C3 to find.
MatchEndTwo(i, ji, ct) == IF ji # 0 \/ ct # STAR THEN i + 2 ELSE i + 1

\* The end of a match: i, or i + 1 when jumpi[j] or ct is not '*'
\* (line 745).  jumpi[j] is read after free(jumps) at line 742.
MatchEnd(i, ji, ct) == IF ji # 0 \/ ct # STAR THEN i + 1 ELSE i

\* The flags that go with a stack.
FlagsOf(stack) == IF stack = "cstack" THEN "incs" ELSE "inns"

\* A thread of the simulator: the machine, the string index i, both stack
\* indices, the token ct, its origin val, its destination dest, and the
\* values returned once a match is found.
Thread(mm, i, ics, ins, ct, val, dest) ==
    [m |-> mm, i |-> i, ics |-> ics, ins |-> ins, ct |-> ct,
     val |-> val, dest |-> dest,
     returned |-> FALSE, start |-> EXIT_TOKEN, end |-> 0]

\* dest is pushed on the stack whatever its flag, a fault for C29 to find.
PushAlways(r, stack, flag) ==
    IF stack = "cstack"
    THEN [r EXCEPT !.ics = @ + 1, !.m = Store(@, stack, r.ics + 1, r.dest)]
    ELSE [r EXCEPT !.ins = @ + 1, !.m = Store(@, stack, r.ins + 1, r.dest)]

\* dest is pushed on the stack unless its flag is set, lines 737-740.
Push(r, stack, flag) ==
    IF flag # 0 THEN r
    ELSE IF stack = "cstack"
    THEN [r EXCEPT !.ics = @ + 1, !.m = Store(@, stack, r.ics + 1, r.dest)]
    ELSE [r EXCEPT !.ins = @ + 1, !.m = Store(@, stack, r.ins + 1, r.dest)]

\* The match is returned when dest is the last token, else dest is marked
\* and takes the origin, lines 741-750; f is the value that jumpi[j] yields
\* once the block is freed.
Arrive(a, stack, f) ==
    IF a.m.ub THEN a
    ELSE IF a.dest = a.m.n_tokens
    THEN [a EXCEPT !.returned = TRUE, !.start = a.val,
                   !.end = MatchEnd(a.i, f, a.ct),
                   !.m.mb = NoBlock]
    ELSE [a EXCEPT !.m = Store(Store(@, FlagsOf(stack), a.dest, 1),
                               "active", a.dest, a.val)]

\* STACK_NEXT_TOKEN without the test of the origin, a fault for C25 to find.
StackAnyOrigin(r, stack, u, f) ==
    IF r.returned \/ r.m.ub \/ r.dest < 0 THEN r
    ELSE IF ~CanLoad(r.m, "active", r.dest) THEN [r EXCEPT !.m.ub = TRUE]
    ELSE IF ~CanStore(r.m, FlagsOf(stack), r.dest)
    THEN [r EXCEPT !.m.ub = TRUE]
    ELSE Arrive(Push(r, stack,
                     IF CanLoad(r.m, FlagsOf(stack), r.dest)
                     THEN Load(r.m, FlagsOf(stack), r.dest) ELSE u),
                stack, f)

\* The macro STACK_NEXT_TOKEN(stack, si, in_stack), lines 735-751; u is the
\* value of a flag byte that was never written.
STACK_NEXT_TOKEN(r, stack, u, f) ==
    IF r.returned \/ r.m.ub \/ r.dest < 0 THEN r
    ELSE IF ~CanLoad(r.m, "active", r.dest) THEN [r EXCEPT !.m.ub = TRUE]
    ELSE IF r.val < Load(r.m, "active", r.dest) THEN r
    ELSE IF ~CanStore(r.m, FlagsOf(stack), r.dest)
    THEN [r EXCEPT !.m.ub = TRUE]
    ELSE Arrive(Push(r, stack,
                     IF CanLoad(r.m, FlagsOf(stack), r.dest)
                     THEN Load(r.m, FlagsOf(stack), r.dest) ELSE u),
                stack, f)

\* The origin of a leading '*' taken one position late, a fault for C30 to
\* find.
OriginNext(j, val, i) == IF j = 0 THEN i + 1 ELSE val

\* The origin kept by a leading '*', a fault for C27 to find.
OriginKept(j, val, i) == val

\* The origin a leading '*' gives its thread, line 800.
Origin(j, val, i) == IF j = 0 THEN i ELSE val

\* Matches with a '.' that also consumes the terminator, a fault for C15
\* to find.
MatchesTerminator(c, ct, ji) == c = ct \/ (ct = DOT /\ ji = 0)

\* Whether token ct consumes character c, line 806.
Matches(c, ct, ji) == c = ct \/ (ct = DOT /\ ji = 0 /\ c # NUL)

\* The second destination of a '*', jumpf[j], lines 803-804.
StarFail(a, j, u, f) ==
    IF a.returned \/ a.m.ub THEN a
    ELSE IF ~CanLoad(a.m, "jumpf", j) THEN [a EXCEPT !.m.ub = TRUE]
    ELSE STACK_NEXT_TOKEN([a EXCEPT !.dest = Load(a.m, "jumpf", j)],
                          "cstack", u, f)

\* The destinations of thread r of token j are stacked, lines 799-818.
Follow(r, j, star, hit, ji, u, f) ==
    IF r.m.ub THEN r
    ELSE IF star
    THEN StarFail(STACK_NEXT_TOKEN([r EXCEPT !.val = Origin(j, @, r.i)],
                                   "cstack", u, f),
                  j, u, f)
    ELSE IF hit THEN STACK_NEXT_TOKEN(r, "nstack", u, f)
    ELSE STACK_NEXT_TOKEN(r, IF ji = 1 THEN "cstack" ELSE "nstack", u, f)

\* Token j, with ct = tokens[j] and ji = jumpi[j], meets character c,
\* lines 789-818.
Meet(m1, j, ct, ji, c, i, ics, ins, u, f) ==
    LET star == ct = STAR /\ ji = 0
        hit == ~star /\ Matches(c, ct, ji)
        first == IF star \/ hit THEN "jumps" ELSE "jumpf"
    IN  Follow(Thread(Check(m1, /\ CanLoad(m1, "tokens", j)
                                /\ CanLoad(m1, "active", j)
                                /\ (ct = STAR \/ c # ct)
                                      => CanLoad(m1, "jumpi", j)
                                /\ CanLoad(m1, first, j)),
                      i, ics - 1, ins, ct,
                      Load(m1, "active", j), Load(m1, first, j)),
               j, star, hit, ji, u, f)

\* Token j is taken off the current stack, lines 786-790.
Popped(string, m1, j, i, ics, ins, u, f) ==
    Meet(m1, j, Load(m1, "tokens", j), Load(m1, "jumpi", j),
         CharAt(string, i), i, ics, ins, u, f)

\* One turn of the inner loop, lines 784-819.
PopToken(string, m, i, ics, ins, u, f) ==
    Popped(string,
           Store(Check(m, CanLoad(m, "cstack", ics)),
                 "incs", Load(m, "cstack", ics), 0),
           Load(m, "cstack", ics), i, ics, ins, u, f)

\* The exchange of the two stacks and of their flags, lines 823-831.
SwapStacks(m) == [m EXCEPT !.swapped = ~m.swapped]

(***************************************************************************)
(* The state machine: one call of match(regex, string, &start, &end).      *)
(***************************************************************************)
\* ran is a history variable: the instructions that the inner loop has
\* popped and acted on since the position i was entered.
VARIABLES regex, string, pc, m, i, ics, ins, start, end, ran

vars == <<regex, string, pc, m, i, ics, ins, start, end, ran>>

\* The letters a and b, and the alphabet patterns are drawn from.
Letters == {97, 98}
Alphabet == Letters \cup {DOT, STAR, QMARK, BAR,
                         LPAREN, RPAREN, LBRACK, RBRACK, LBRACE, RBRACE}

RECURSIVE SeqsUpTo(_, _)
SeqsUpTo(S, n) ==
    IF n = 0 THEN {<<>>}
    ELSE LET shorter == SeqsUpTo(S, n - 1)
         IN  shorter \cup {Append(q, x) : q \in {t \in shorter : Len(t) = n - 1},
                                          x \in S}

\* Patterns over the alphabet that are longer than MaxRegexLen: a starred
\* group of a starred letter followed by b, the alternation of two starred
\* groups between two dots (regex.c line 950), a star then two letters, a
\* starred group then a letter, a negated letter after a letter, a letter
\* alternated with a group, and an unclosed group after three letters.
LongRegexes ==
    {<<LPAREN, 97, STAR, RPAREN, STAR, 98>>,
     <<DOT, LPAREN, LPAREN, 97, STAR, RPAREN, BAR,
       LPAREN, 98, STAR, RPAREN, RPAREN, STAR, DOT>>,
     <<97, STAR, 98, 97>>,
     <<LPAREN, 97, 98, RPAREN, STAR, 97>>,
     <<97, LBRACE, 98, RBRACE>>,
     <<97, BAR, LPAREN, 98, RPAREN>>,
     <<97, 98, 97, LPAREN>>}

\* A letter, bare or in a group.
Atoms == {<<x>> : x \in Letters} \cup {<<LPAREN, x, RPAREN>> : x \in Letters}

\* The alternations of two atoms.
AltRegexes == {X \o <<BAR>> \o Y : X \in Atoms, Y \in Atoms}

\* Literal patterns that end with a negated '.'.
EndRegexes ==
    {P \o <<LBRACE, DOT, RBRACE>> : P \in SeqsUpTo(Letters, 2) \ {<<>>}}

\* A group of a starred or optional letter, then '|' and a letter.
EmptyAltRegexes ==
    {<<LPAREN, x, mod, RPAREN, BAR, y>> :
       x \in Letters, mod \in {STAR, QMARK}, y \in Letters}

\* Negated patterns with an instruction of each kind: a literal, a '.', a
\* set of two tokens, and the modifiers of a token and of a group.
OddBodies ==
    {<<97, 98>>, <<DOT>>, <<LBRACK, 97, 98, RBRACK>>}
    \cup {<<97, mod>> : mod \in {STAR, QMARK}}
    \cup {<<LPAREN, 97, RPAREN, mod>> : mod \in {STAR, QMARK}}
    \cup {<<97, BAR, 98>>, <<LPAREN, 97, RPAREN, BAR, 98>>}
OddRegexes == {<<LBRACE>> \o P \o <<RBRACE>> : P \in OddBodies}

\* The accepted patterns of up to MaxRegexLen bytes, between two pairs of
\* braces.
Twice(P) == <<LBRACE, LBRACE>> \o P \o <<RBRACE, RBRACE>>
NegRegexes ==
    {Twice(P) : P \in {Q \in SeqsUpTo(Alphabet, MaxRegexLen) :
                         Count(Q).tokens > 0 /\ Count(Twice(Q)).tokens > 0}}

\* A '|' that follows a modifier of a letter, as in "a*|b", and a '|' that
\* opens a group before a letter, as in "(|a)".
BarRegexes ==
    {<<x, mod, BAR, y>> : x \in Letters, mod \in {STAR, QMARK, BAR},
                          y \in Letters}
    \cup {<<LPAREN, BAR, x, RPAREN>> : x \in Letters}

\* Modified groups nested two and three deep, each followed by a letter,
\* as in "((a)?b)?a" and "(((a)*b)*a)*b", bare and after a letter; a set
\* then a letter, and a letter then a set.
NestedModified(mod) ==
    {<<LPAREN, LPAREN, 97, RPAREN, mod, 98, RPAREN, mod, 97>>,
     <<LPAREN, LPAREN, LPAREN, 97, RPAREN, mod, 98, RPAREN, mod, 97,
       RPAREN, mod, 98>>}
NestedRegexes ==
    NestedModified(STAR) \cup NestedModified(QMARK)
        \cup {<<98>> \o P : P \in NestedModified(QMARK)}
    \cup {<<LBRACK, 97, 98, RBRACK, 97>>, <<97, LBRACK, 97, 98, RBRACK>>}

\* A starred group of a letter and a starred letter, then the two letters,
\* as in "(aa*)*aa": on "aa" a thread that started at 0 meets an
\* instruction that a thread started at 1 has reached.
LoopRegexes ==
    {<<LPAREN, x, y, STAR, RPAREN, STAR, x, y>> : x \in Letters, y \in Letters}

Regexes ==
    SeqsUpTo(Alphabet, MaxRegexLen) \cup LongRegexes \cup AltRegexes
        \cup EndRegexes \cup NegRegexes \cup EmptyAltRegexes \cup OddRegexes
        \cup BarRegexes \cup NestedRegexes \cup LoopRegexes
Strings == SeqsUpTo(Letters, MaxStringLen)

\* Calls of the tests of regex.c and test_regex.c, in this order: a dot-star
\* before abc on six spaces and abc, a star before bc on aabc, a starred
\* group ab before c on ababc, an unclosed group after abc on a space, the
\* alternation of two starred groups on " aabbb ", dot-star on itself.
TestCalls ==
    {<<<<DOT, STAR, 97, 98, 99>>, <<32, 32, 32, 32, 32, 32, 97, 98, 99>>>>,
     <<<<97, STAR, 98, 99>>, <<97, 97, 98, 99>>>>,
     <<<<LPAREN, 97, 98, RPAREN, STAR, 99>>, <<97, 98, 97, 98, 99>>>>,
     <<<<97, 98, 99, LPAREN>>, <<32>>>>,
     <<<<DOT, LPAREN, LPAREN, 97, STAR, RPAREN, BAR,
         LPAREN, 98, STAR, RPAREN, RPAREN, STAR, DOT>>,
       <<32, 97, 97, 98, 98, 98, 32>>>>,
     <<<<DOT, STAR>>, <<DOT, STAR>>>>}

\* A class of one member, any byte but ']', on an input of one byte; the
\* last is the call of test_regex.c lines 423-425, a class of '|' on
\* "| test".
ClassCalls ==
    {<<<<LBRACK, x, RBRACK>>, <<y>>>> : x \in Alphabet \ {RBRACK},
                                       y \in Alphabet}
    \cup {<<<<LBRACK, BAR, RBRACK>>, <<BAR, 32, 116, 101, 115, 116>>>>}

\* A class of one member x before y on the input xy, and the same class
\* between braces on the input zy with z other than x.
DualCalls ==
    {<<<<LBRACK, x, RBRACK, y>>, <<x, y>>>> : x \in Alphabet, y \in Alphabet}
    \cup {<<<<LBRACE, LBRACK, t[1], RBRACK, RBRACE, t[2]>>, <<t[3], t[2]>>>> :
             t \in {q \in Alphabet \X Alphabet \X Alphabet : q[3] # q[1]}}

Init ==
    /\ \/ regex \in Regexes /\ string \in Strings
       \/ \E call \in TestCalls \cup ClassCalls \cup DualCalls :
            regex = call[1] /\ string = call[2]
    /\ pc = "call"
    /\ m = NoMachine
    /\ i = 0
    /\ ics = 0
    /\ ins = -1
    /\ start = 0
    /\ end = 0
    /\ ran = {}

\* "No match" with the end at EXIT_TOKEN, a fault for C4 to find.
NoMatchMinusOne == <<EXIT_TOKEN, EXIT_TOKEN>>

\* The start and the end of "no match", lines 699-700.
NoMatch == <<EXIT_TOKEN, 0>>

\* The return of a call: the block of match is released.
Return(s, e) ==
    /\ pc' = "done"
    /\ start' = s
    /\ end' = e
    /\ m' = [m EXCEPT !.mb = NoBlock]

\* An access outside a block: nothing is known of what follows.
Undefined(mm) ==
    /\ pc' = "undefined"
    /\ m' = mm
    /\ UNCHANGED <<start, end>>

\* The check of the pattern made before that of the input, a fault for C5
\* to find.
EmptyStringAfterCount ==
    /\ pc = "call"
    /\ CharAt(string, 0) = NUL
    /\ LET n == Count(regex) IN
         IF n.tokens < 0 THEN Return(n.tokens, n.groups)
         ELSE Return(EXIT_TOKEN, STRING_EMPTY_ERROR)
    /\ UNCHANGED <<regex, string, i, ics, ins, ran>>

\* The empty string, lines 645-649.
EmptyString ==
    /\ pc = "call"
    /\ CharAt(string, 0) = NUL
    /\ Return(EXIT_TOKEN, STRING_EMPTY_ERROR)
    /\ UNCHANGED <<regex, string, i, ics, ins, ran>>

\* A pattern that _count rejects, lines 652-664.
PatternError ==
    /\ pc = "call"
    /\ CharAt(string, 0) # NUL
    /\ LET n == Count(regex) IN
         /\ n.tokens <= 0
         /\ IF n.tokens = 0
            THEN Return(EXIT_TOKEN, REGEX_NO_TOKENS_ERROR)
            ELSE Return(n.tokens, n.groups)
    /\ UNCHANGED <<regex, string, i, ics, ins, ran>>

\* A step of the call that leaves the machine as mm.
Pass(from, to, mm) ==
    /\ pc = from
    /\ IF mm.ub THEN Undefined(mm)
       ELSE /\ pc' = to /\ m' = mm /\ UNCHANGED <<start, end>>
    /\ UNCHANGED <<regex, string, i, ics, ins, ran>>

\* An accepted pattern: both blocks are allocated, lines 652-679, 253-274.
Allocate ==
    /\ CharAt(string, 0) # NUL
    /\ Count(regex).tokens > 0
    /\ Pass("call", "first",
            SetJumpAlloc(MatchAlloc(Count(regex).tokens,
                                    Count(regex).groups)))

\* The passes of _set_jump.
First == Pass("first", "second", FirstPass(regex, m))
Second == Pass("second", "third", SecondPass(regex, m))
Third == Pass("third", "init", ThirdPass(regex, m))

\* The simulator is ready for the first character.
Ready(mm) ==
    IF mm.ub THEN Undefined(mm) /\ UNCHANGED <<i, ics, ins>>
    ELSE /\ pc' = "scan"
         /\ m' = mm
         /\ start' = NoMatch[1]
         /\ end' = NoMatch[2]
         /\ i' = 0
         /\ ics' = 0
         /\ ins' = -1

\* The state before the first character, lines 698-722.
Start ==
    /\ pc = "init"
    /\ Ready(InitMatch(m))
    /\ UNCHANGED <<regex, string, ran>>

\* What a turn of the inner loop leaves: an access outside the block, the
\* return of a match, or the two stacks.
Land(r) ==
    IF r.m.ub THEN Undefined(r.m) /\ UNCHANGED <<i, ics, ins>>
    ELSE IF r.returned
    THEN /\ pc' = "done"
         /\ m' = r.m
         /\ start' = r.start
         /\ end' = r.end
         /\ UNCHANGED <<i, ics, ins>>
    ELSE /\ m' = r.m
         /\ ics' = r.ics
         /\ ins' = r.ins
         /\ UNCHANGED <<pc, i, start, end>>

\* One turn of the inner loop: a token is popped and acted on, 782-820.
Step ==
    /\ pc = "scan"
    /\ ics >= 0
    /\ \E u \in {0, 1}, f \in {0, 1} :
         Land(PopToken(string, m, i, ics, ins, u, f))
    /\ ran' = IF CanLoad(m, "cstack", ics)
               THEN ran \cup {Load(m, "cstack", ics)} ELSE ran
    /\ UNCHANGED <<regex, string>>

\* Whether the outer loop stops after character c, lines 842-849.
Stops(c, nics) == c = NUL \/ nics < 0

\* The current stack is empty: the stacks are exchanged and the next
\* character is taken, or the call returns without a match, 821-851.
Advance ==
    /\ pc = "scan"
    /\ ics < 0
    /\ IF Stops(CharAt(string, i), ins)
       THEN /\ pc' = "done"
            /\ m' = [SwapStacks(m) EXCEPT !.mb = NoBlock]
            /\ i' = IF CharAt(string, i) = NUL THEN i ELSE i + 1
            /\ UNCHANGED <<start, end>>
       ELSE /\ m' = SwapStacks(m)
            /\ i' = i + 1
            /\ UNCHANGED <<pc, start, end>>
    /\ ics' = ins
    /\ ins' = -1
    /\ ran' = {}
    /\ UNCHANGED <<regex, string>>

Next ==
    \/ EmptyString
    \/ PatternError
    \/ Allocate
    \/ First
    \/ Second
    \/ Third
    \/ Start
    \/ Step
    \/ Advance

Spec == Init /\ [][Next]_vars

\* The calls that termination is checked on: the long patterns and the
\* patterns made of a letter and the star.
LiveRegexes == LongRegexes \cup SeqsUpTo({97, STAR}, MaxRegexLen)

LiveInit == Init /\ regex \in LiveRegexes /\ string \in Strings

\* The call has returned, or has left its blocks.
Halted == pc \in {"done", "undefined"}

\* The call is always scheduled: it runs until it returns.  This is weak
\* fairness of Next; a step of Next is possible exactly when the call has
\* not halted, so beside WF_vars(Advance) it is written with ~Halted for
\* ENABLED <<Next>>_vars.
Fairness == WF_vars(Advance) /\ ([]<>Halted \/ []<><<Next>>_vars)

FairSpec == LiveInit /\ [][Next]_vars /\ Fairness

(***************************************************************************)
(* The vocabulary of the claims.                                           *)
(***************************************************************************)

\* Whether offset p of pattern r follows a '[' that no ']' has closed yet.
RECURSIVE InClass(_, _)
InClass(r, p) ==
    IF p <= 0 THEN FALSE
    ELSE IF InClass(r, p - 1) THEN CharAt(r, p - 1) # RBRACK
    ELSE CharAt(r, p - 1) = LBRACK

\* Whether every ) and } from offset p on closes the innermost open group
\* of `open`, and none is left open at the end.
RECURSIVE Nested(_, _, _)
Nested(r, p, open) ==
    IF p >= Len(r) THEN open = <<>>
    ELSE LET b == CharAt(r, p) IN
         IF InClass(r, p) THEN Nested(r, p + 1, open)
         ELSE IF b \in {LPAREN, LBRACE} THEN Nested(r, p + 1, Append(open, b))
         ELSE IF b \in {RPAREN, RBRACE}
         THEN /\ open # <<>>
              /\ open[Len(open)] = (IF b = RPAREN THEN LPAREN ELSE LBRACE)
              /\ Nested(r, p + 1, SubSeq(open, 1, Len(open) - 1))
         ELSE Nested(r, p + 1, open)

WellNested(r) == ~InClass(r, Len(r)) /\ Nested(r, 0, <<>>)

\* The rules of a syntax error as the documentation words them.
RuleAt(r, p) ==
    LET b == CharAt(r, p)
        prev == CharAt(r, p - 1)
    IN  /\ p \in 0 .. Len(r) - 1
        /\ ~InClass(r, p)
        /\ \/ p = 0 /\ b \in {RPAREN, RBRACK, RBRACE, STAR, QMARK, BAR}
           \/ p > 0 /\ b \in {STAR, QMARK}
                    /\ prev \in {STAR, QMARK, LPAREN, LBRACE, BAR}
           \/ p > 0 /\ b \in {RPAREN, RBRACK, RBRACE} /\ prev = BAR
           \/ b = BAR /\ p = Len(r) - 1

FirstRuleAt(r, p) == RuleAt(r, p) /\ \A q \in 0 .. p - 1 : ~RuleAt(r, q)

\* An empty group (), [] or {} outside a class that closes at offset q.
EmptyGroupAt(r, q) ==
    /\ q \in 1 .. Len(r) - 1
    /\ ~InClass(r, q - 1)
    /\ <<CharAt(r, q - 1), CharAt(r, q)>> \in
         {<<LPAREN, RPAREN>>, <<LBRACK, RBRACK>>, <<LBRACE, RBRACE>>}

FirstEmptyGroupAt(r, q) ==
    EmptyGroupAt(r, q) /\ \A p \in 1 .. q - 1 : ~EmptyGroupAt(r, p)

\* A call on a non-empty input that has returned.
Returned == pc = "done" /\ string # <<>>

\* The offset and the code of a pattern error that a call returned.
ErrorPos == -start - 1
ErrorCode == -end

\* _count rejected the pattern at an offset before p.
RejectedBefore(r, p) == Count(r).tokens < 0 /\ -Count(r).tokens - 1 < p

(***************************************************************************)
(* C1: for every accepted pattern and non-empty input, match terminates.   *)
(* Checked under FairSpec.  Refuted: with a starred group of a starred     *)
(* letter (the first of LongRegexes) on "a" the current stack never        *)
(* empties.                                                                *)
(***************************************************************************)
C1_Terminates == <>Halted

(***************************************************************************)
(* C2: whenever match succeeds the reported start is 0.  Refuted: a star   *)
(* before b on "ab" returns (1, 2), the first of TestCalls (6, 9).         *)
(***************************************************************************)
C2_StartIsZero == (pc = "done" /\ start >= 0) => start = 0

(***************************************************************************)
(* C3 as written: a match (s, e) on a non-empty input has                  *)
(* 0 <= s < e <= |S|.  Refuted: dot-star returns (0, 0), and a letter      *)
(* before a negated letter returns (0, 2) on "a".                          *)
(***************************************************************************)
C3_NonEmptyInsideInput ==
    (Returned /\ start >= 0) =>
        (0 <= start /\ start < end /\ end <= Len(string))

(***************************************************************************)
(* C3 amended: a match (s, e) on a non-empty input has                     *)
(* 0 <= s <= e <= |S| + 1.                                                 *)
(***************************************************************************)
C3_MatchRange ==
    (Returned /\ start >= 0) =>
        (0 <= start /\ start <= end /\ end <= Len(string) + 1)

C3_EndPastInput == Returned /\ start >= 0 /\ end = Len(string) + 1

(***************************************************************************)
(* C4: for an accepted pattern and a non-empty input, match returns a      *)
(* match (start >= 0) or exactly (-1, 0), never start = -1 with end < 0;   *)
(* it returns (-1, 0) when the stacks empty or the input ends with no      *)
(* thread at the accept index.  A statement about what is returned:        *)
(* whether the call returns is C1.                                         *)
(***************************************************************************)
C4_MatchOrNoMatch ==
    /\ []((Returned /\ Count(regex).tokens > 0) =>
            (start >= 0 \/ (start = -1 /\ end = 0)))
    /\ [][(pc = "scan" /\ pc' = "done") =>
            IF ics < 0 THEN start' = -1 /\ end' = 0 ELSE start' >= 0]_vars

C4_NoMatchBeforeEnd ==
    /\ Returned
    /\ Count(regex).tokens > 0
    /\ start = -1 /\ end = 0
    /\ i < Len(string)

(***************************************************************************)
(* C5: for an empty input match returns start = -1 and                     *)
(* end = STRING_EMPTY_ERROR for every pattern, malformed ones included.    *)
(***************************************************************************)
C5_EmptyInput ==
    (pc = "done" /\ string = <<>>) =>
        (start = -1 /\ end = STRING_EMPTY_ERROR)

C5_EmptyInputBadPattern ==
    /\ pc = "done" /\ string = <<>>
    /\ Count(regex).tokens < 0
    /\ end = STRING_EMPTY_ERROR

C7_UnclosedGroupIsFive ==
    (/\ Returned
     /\ regex # <<>>
     /\ CharAt(regex, Len(regex) - 1) \in {LPAREN, LBRACE}
     /\ ~InClass(regex, Len(regex) - 1)
     /\ ErrorPos = Len(regex)) => end = -5

(***************************************************************************)
(* C8: _count rejects every pattern in which a group is left open or a     *)
(* closing ) or } does not match the innermost open group.  Refuted: a     *)
(* letter between ( and } is accepted with one token and one group.        *)
(***************************************************************************)
C8_AcceptedIsWellNested == (pc = "first") => WellNested(regex)

(***************************************************************************)
(* C9 as written: _count reports code 3 at offset p when p is the first    *)
(* offset outside a class at which one of the rules of a syntax error      *)
(* holds.  Refuted: an empty group before a final bar is reported first,   *)
(* with code 4 at its closing byte.                                        *)
(***************************************************************************)
C9_SyntaxErrorAtFirstRule ==
    (pc # "call" /\ string # <<>>) =>
        \A p \in 0 .. Len(regex) - 1 :
            FirstRuleAt(regex, p) =>
                (pc = "done" /\ ErrorPos = p /\ end = REGEX_SYNTAX_ERROR)

(***************************************************************************)
(* C9 amended: _count reports code 3 at offset p when p is the first       *)
(* offset outside a class at which one of the rules holds and _count has   *)
(* not rejected the pattern at an offset before p.                         *)
(***************************************************************************)
C9_SyntaxErrorUnlessEarlier ==
    (pc # "call" /\ string # <<>>) =>
        \A p \in 0 .. Len(regex) - 1 :
            (FirstRuleAt(regex, p) /\ ~RejectedBefore(regex, p)) =>
                (pc = "done" /\ ErrorPos = p /\ end = REGEX_SYNTAX_ERROR)

C9_RuleAtThirdByte ==
    /\ Returned
    /\ FirstRuleAt(regex, 2)
    /\ ErrorPos = 2
    /\ end = REGEX_SYNTAX_ERROR

(***************************************************************************)
(* C10 as written: every pattern with an empty group outside a class is    *)
(* rejected with code 4 at the closing byte of the group.  Refuted: a star *)
(* before an empty group is rejected with code 3 at offset 0.              *)
(***************************************************************************)
C10_EmptyGroupIsCodeFour ==
    (pc # "call" /\ string # <<>>) =>
        \A q \in 1 .. Len(regex) - 1 :
            FirstEmptyGroupAt(regex, q) =>
                (pc = "done" /\ ErrorPos = q /\ end = REGEX_EMPTY_GROUP_ERROR)

(***************************************************************************)
(* C10 amended: every pattern with an empty group outside a class is       *)
(* rejected, with code 4 at the closing byte of its first empty group      *)
(* unless _count rejects it at an offset before that byte; no accepted     *)
(* pattern contains an empty group.                                        *)
(***************************************************************************)
C10_EmptyGroupRejected ==
    (pc # "call" /\ string # <<>>) =>
        \A q \in 1 .. Len(regex) - 1 :
            FirstEmptyGroupAt(regex, q) =>
                /\ pc = "done" /\ start < 0 /\ end < 0
                /\ \/ ErrorPos = q /\ end = REGEX_EMPTY_GROUP_ERROR
                   \/ ErrorPos < q

C10_EmptyBracesReported ==
    /\ Returned
    /\ FirstEmptyGroupAt(regex, 2)
    /\ CharAt(regex, 2) = RBRACE
    /\ ErrorPos = 2
    /\ end = REGEX_EMPTY_GROUP_ERROR

\* A member of a character class: a byte after a '[' still open that is not
\* the ']' that closes it.
ClassMember(r, p) == InClass(r, p) /\ CharAt(r, p) # RBRACK

\* The bytes that the documentation counts as tokens: the class members and
\* the bytes outside classes that are none of ( ) { } [ ].
TokenBytes(r) ==
    {p \in 0 .. Len(r) - 1 :
       \/ ClassMember(r, p)
       \/ ~InClass(r, p) /\ CharAt(r, p) \notin (Openers \cup Closers)}

\* The group openers outside classes.
GroupOpeners(r) ==
    {p \in 0 .. Len(r) - 1 : ~InClass(r, p) /\ CharAt(r, p) \in Openers}

(***************************************************************************)
(* C11: for every pattern that _count accepts, T is the number of class    *)
(* members plus the number of bytes outside classes that are none of       *)
(* ( ) { } [ ], and G is the number of group openers outside classes.      *)
(* Refuted: a ']' outside a class is counted as a token, so a letter       *)
(* followed by ']' is accepted with T = 2.                                 *)
(***************************************************************************)
C11_CountIsTokensAndGroups ==
    (pc = "first") =>
        /\ m.n_tokens = Cardinality(TokenBytes(regex))
        /\ m.n_groups = Cardinality(GroupOpeners(regex))

(***************************************************************************)
(* C12: inside a class every byte other than ']' is a literal: a class of  *)
(* the one member x matches an input exactly when its first character is   *)
(* x.  Refuted: a '|' or a '?' that is the last member of a class has      *)
(* jumpi = 2 and is rewritten to '*' at lines 707-708, so the class of '|' *)
(* does not match "|" and does match "*".                                  *)
(***************************************************************************)
C12_ClassMemberIsLiteral ==
    (/\ Returned
     /\ Len(regex) = 3
     /\ regex[1] = LBRACK /\ regex[2] # RBRACK /\ regex[3] = RBRACK)
    => (start >= 0 <=> string[1] = regex[2])

\* The letters of a pattern.
LettersOf(r) == {r[p] : p \in DOMAIN r} \cap Letters

(***************************************************************************)
(* C13: for an alternation of two atoms, each a letter or a group of one   *)
(* letter, the hoisted '|' is instruction 0 with js = 1, the first of the  *)
(* left side, and jf = 2, the first of the right side; the left side on    *)
(* success jumps to 3, after the right side; and the call succeeds exactly *)
(* when the input starts with one of the two letters.  Refuted: for a      *)
(* letter, '|' and a group, line 600 reads group_nexts[ng + 1] instead of  *)
(* group_nexts[ng], and the left side jumps to 0.                          *)
(***************************************************************************)
C13_Alternation ==
    regex \in AltRegexes =>
        /\ (pc = "init") => /\ Load(m, "jumps", 0) = 1
                            /\ Load(m, "jumpf", 0) = 2
                            /\ Load(m, "jumps", 1) = 3
        /\ Returned => (start >= 0 <=> string[1] \in LettersOf(regex))

(***************************************************************************)
(* The regular language of a pattern made of literals, '.', classes,       *)
(* groups in parentheses and the modifiers '*' and '?', as the grammar of  *)
(* the documentation defines it.  Offsets in patterns count from 0; a      *)
(* position k of an input means that k characters have been consumed.      *)
(***************************************************************************)

\* The offset of the ')' that closes a group, scanning from offset q with
\* `depth` groups open inside it.
RECURSIVE CloseOf(_, _, _)
CloseOf(r, q, depth) ==
    IF q >= Len(r) THEN q
    ELSE IF InClass(r, q) THEN CloseOf(r, q + 1, depth)
    ELSE IF CharAt(r, q) = LPAREN THEN CloseOf(r, q + 1, depth + 1)
    ELSE IF CharAt(r, q) = RPAREN
    THEN IF depth = 0 THEN q ELSE CloseOf(r, q + 1, depth - 1)
    ELSE CloseOf(r, q + 1, depth)

\* The offset of the ']' that closes the class whose members start at q.
RECURSIVE ClassEnd(_, _)
ClassEnd(r, q) ==
    IF q >= Len(r) \/ CharAt(r, q) = RBRACK THEN q ELSE ClassEnd(r, q + 1)

\* The offset of the last byte of the atom that starts at offset p.
AtomEnd(r, p) ==
    IF CharAt(r, p) = LPAREN THEN CloseOf(r, p + 1, 0)
    ELSE IF CharAt(r, p) = LBRACK THEN ClassEnd(r, p + 1)
    ELSE p

\* The positions of input S reached from the positions of K by one byte
\* among `bytes`.
Consume(S, K, bytes) ==
    {k + 1 : k \in {j \in K : j < Len(S) /\ S[j + 1] \in bytes}}

RECURSIVE SeqEnds(_, _, _, _, _)
RECURSIVE AtomEnds(_, _, _, _, _)
RECURSIVE StarEnds(_, _, _, _, _)

\* The positions reached from K by the atom at offsets p .. e.
AtomEnds(r, p, e, S, K) ==
    IF CharAt(r, p) = LPAREN THEN SeqEnds(r, p + 1, e, S, K)
    ELSE IF CharAt(r, p) = LBRACK
    THEN Consume(S, K, {CharAt(r, q) : q \in p + 1 .. e - 1})
    ELSE IF CharAt(r, p) = DOT
    THEN Consume(S, K, {S[j] : j \in DOMAIN S} \ {NUL})
    ELSE Consume(S, K, {CharAt(r, p)})

\* The positions reached from K by zero or more occurrences of the atom.
StarEnds(r, p, e, S, K) ==
    IF AtomEnds(r, p, e, S, K) \subseteq K THEN K
    ELSE StarEnds(r, p, e, S, K \cup AtomEnds(r, p, e, S, K))

\* The positions reached from K by the items at offsets p .. hi - 1.
SeqEnds(r, p, hi, S, K) ==
    IF p >= hi THEN K
    ELSE LET e == AtomEnd(r, p)
             mod == CharAt(r, e + 1)
         IN  IF e + 1 < hi /\ mod = STAR
             THEN SeqEnds(r, e + 2, hi, S, StarEnds(r, p, e, S, K))
             ELSE IF e + 1 < hi /\ mod = QMARK
             THEN SeqEnds(r, e + 2, hi, S, K \cup AtomEnds(r, p, e, S, K))
             ELSE SeqEnds(r, e + 1, hi, S, AtomEnds(r, p, e, S, K))

\* Some prefix of S belongs to the language of r.
PrefixInLanguage(r, S) == SeqEnds(r, 0, Len(r), S, {0}) # {}

\* An accepted pattern of that grammar: well nested, every ']' closes a
\* class, and no '|', '{' or '}' outside a class.
StarGrammar(r) ==
    /\ Count(r).tokens > 0
    /\ WellNested(r)
    /\ \A p \in 0 .. Len(r) - 1 :
         /\ CharAt(r, p) = RBRACK => InClass(r, p)
         /\ ~InClass(r, p) => CharAt(r, p) \notin {BAR, LBRACE, RBRACE}

(***************************************************************************)
(* C14: for every accepted pattern built only from literals, '.', classes, *)
(* groups in parentheses and the modifiers '*' and '?', and every          *)
(* non-empty input S, the call succeeds exactly when some prefix of S      *)
(* belongs to the regular language of the pattern.  Refuted through C12:   *)
(* the class of '?' matches the input "*".                                 *)
(***************************************************************************)
C14_StarAndOptional ==
    (Returned /\ StarGrammar(regex))
    => (start >= 0 <=> PrefixInLanguage(regex, string))

(***************************************************************************)
(* C15: for a pattern P made only of literal bytes and a non-empty input   *)
(* S, match of P followed by a negated '.' succeeds exactly when S equals  *)
(* P; it fails when S has a character after P.                             *)
(***************************************************************************)
C15_EndOfInput ==
    (Returned /\ regex \in EndRegexes)
    => (start >= 0 <=> string = SubSeq(regex, 1, Len(regex) - 3))

C15_WholeInputMatched ==
    /\ Returned
    /\ regex = <<97, 98, LBRACE, DOT, RBRACE>>
    /\ string = <<97, 98>>
    /\ start = 0 /\ end = 3

(***************************************************************************)
(* The call match(regex, string) as a function of its inputs: the set of   *)
(* what it can leave, computed with the operators the actions use.  An     *)
(* item is a return, an access outside a block, or a simulator that is     *)
(* still running.                                                          *)
(***************************************************************************)
MaxTurns == 64

Item(kind, s, e, mm, k, cs, ns) ==
    [kind |-> kind, start |-> s, end |-> e,
     m |-> mm, i |-> k, ics |-> cs, ins |-> ns]

Returns(s, e) == Item("return", s, e, NoMachine, 0, 0, 0)
Leaves == Item("undefined", 0, 0, NoMachine, 0, 0, 0)
Running(mm, k, cs, ns) == Item("running", 0, 0, mm, k, cs, ns)

\* The three passes of _set_jump; a pass is not run after an access outside
\* a block.
PassThree(r, mm) == IF mm.ub THEN mm ELSE ThirdPass(r, mm)
PassTwo(r, mm) == IF mm.ub THEN mm ELSE PassThree(r, SecondPass(r, mm))
PassOne(r, mm) == IF mm.ub THEN mm ELSE PassTwo(r, FirstPass(r, mm))
Compile(r) ==
    PassOne(r, SetJumpAlloc(MatchAlloc(Count(r).tokens, Count(r).groups)))

\* What a turn of the inner loop leaves, lines 782-820.
Turn(r, k) ==
    IF r.m.ub THEN Leaves
    ELSE IF r.returned THEN Returns(r.start, r.end)
    ELSE Running(r.m, k, r.ics, r.ins)

\* The end of the inner loop, lines 821-851.
Exchange(S, c) ==
    IF Stops(CharAt(S, c.i), c.ins) THEN Returns(NoMatch[1], NoMatch[2])
    ELSE Running(SwapStacks(c.m), c.i + 1, c.ins, -1)

\* What follows the running simulator c.
Turns(S, c) ==
    IF c.ics >= 0
    THEN {Turn(PopToken(S, c.m, c.i, c.ics, c.ins, u, f), c.i) :
            u \in {0, 1}, f \in {0, 1}}
    ELSE {Exchange(S, c)}

\* The items left after at most `fuel` more turns of every simulator.
RECURSIVE Scan(_, _, _)
Scan(S, items, fuel) ==
    LET live == {c \in items : c.kind = "running"}
    IN  IF live = {} \/ fuel = 0 THEN items
        ELSE Scan(S, (items \ live) \cup UNION {Turns(S, c) : c \in live},
                  fuel - 1)

\* The simulator before the first character, lines 698-722.
Begin(S, mm) ==
    IF mm.ub THEN {Leaves} ELSE Scan(S, {Running(mm, 0, 0, -1)}, MaxTurns)

Compiled(S, mm) == IF mm.ub THEN {Leaves} ELSE Begin(S, InitMatch(mm))

\* What match(r, S) can leave, lines 643-852.
MatchOutcomes(r, S) ==
    IF CharAt(S, 0) = NUL THEN {Returns(EXIT_TOKEN, STRING_EMPTY_ERROR)}
    ELSE IF Count(r).tokens = 0
    THEN {Returns(EXIT_TOKEN, REGEX_NO_TOKENS_ERROR)}
    ELSE IF Count(r).tokens < 0
    THEN {Returns(Count(r).tokens, Count(r).groups)}
    ELSE Compiled(S, Compile(r))

\* The pattern between the two pairs of braces of a pattern of NegRegexes.
Body(r) == SubSeq(r, 3, Len(r) - 2)

(***************************************************************************)
(* C16: double negation is the identity.  For every pattern P such that P  *)
(* and P between two pairs of braces are both accepted, and every          *)
(* non-empty input S, the call on the braced pattern returns a (start,     *)
(* end) that the call on P returns.                                        *)
(***************************************************************************)
C16_DoubleNegation ==
    (Returned /\ regex \in NegRegexes)
    => Returns(start, end) \in MatchOutcomes(Body(regex), string)

\* The call is that of a class of one member x before y on the input xy; the
\* pattern with x as a bare token.
ClassCall ==
    /\ Len(regex) = 4 /\ regex[1] = LBRACK /\ regex[3] = RBRACK
    /\ string = <<regex[2], regex[4]>>
BareOf(r) == <<r[2], r[4]>>

\* The call is that of a negated class of one member x before y on the input
\* zy, z other than x; the pattern with x as a negated bare token.
NegClassCall ==
    /\ Len(regex) = 6 /\ regex[1] = LBRACE /\ regex[2] = LBRACK
    /\ regex[4] = RBRACK /\ regex[5] = RBRACE
    /\ Len(string) = 2 /\ string[2] = regex[6] /\ string[1] # regex[3]
NegBareOf(r) == <<LBRACE, r[3], RBRACE, r[6]>>

\* A byte that is a literal outside a class.
Literal(b) == b \notin Openers \cup Closers \cup Modifiers \cup {DOT}

(***************************************************************************)
(* C17 as stated: for any bytes x, y and z with z other than x, the class  *)
(* of x before y returns on xy what the bare x before y returns, and the   *)
(* negated class of x before y returns on zy what the negated bare x       *)
(* before y returns.  Refuted: in a class '.' is a literal, bare it is the *)
(* wildcard, and the other special bytes are no tokens when bare.          *)
(***************************************************************************)
C17_ClassDualityAnyByte ==
    /\ (Returned /\ ClassCall)
       => Returns(start, end) \in MatchOutcomes(BareOf(regex), string)
    /\ (Returned /\ NegClassCall)
       => Returns(start, end) \in MatchOutcomes(NegBareOf(regex), string)

(***************************************************************************)
(* C17 amended: the same for literal bytes x and y, that is bytes other    *)
(* than . * ? | and the six delimiters; the bare pattern returns exactly   *)
(* what the class returned.                                                *)
(***************************************************************************)
C17_ClassDuality ==
    /\ (Returned /\ ClassCall /\ Literal(regex[2]) /\ Literal(regex[4]))
       => MatchOutcomes(BareOf(regex), string) = {Returns(start, end)}
    /\ (Returned /\ NegClassCall /\ Literal(regex[3]) /\ Literal(regex[6]))
       => MatchOutcomes(NegBareOf(regex), string) = {Returns(start, end)}

C17_NegatedClassMatched ==
    /\ Returned /\ NegClassCall
    /\ regex = <<LBRACE, LBRACK, 97, RBRACK, RBRACE, 98>>
    /\ string = <<98, 98>>
    /\ start = 0 /\ end = 2

(***************************************************************************)
(* C18: for every accepted pattern of T tokens, after _set_jump every js   *)
(* and jf of the tokens 0 .. T - 1 lies in -1 .. T, and the third pass     *)
(* reads group_starts and group_nexts only at the indices 0 .. G - 1, a    *)
(* single token followed by '|' and a group included.                      *)
(***************************************************************************)
C18_JumpsAndReadsInRange ==
    /\ (pc = "init") =>
         \A k \in 0 .. m.n_tokens - 1 :
             /\ Load(m, "jumps", k) \in -1 .. m.n_tokens
             /\ Load(m, "jumpf", k) \in -1 .. m.n_tokens
    /\ (pc = "third") =>
         ThirdPassReads(regex, StartPass(m)) \subseteq 0 .. m.n_groups - 1

(***************************************************************************)
(* The paths of the compiled program mm on the input S.  A thread is an    *)
(* instruction j at position k of S; a move is <<destination, position,    *)
(* end>>, the end being what a return from that move would report.         *)
(***************************************************************************)

\* The moves of instruction j at position k, lines 799-818: both
\* destinations of a '*' at the same position; the first destination after
\* the character when it is consumed; the second otherwise, at the same
\* position for a token of a set that is not its last.
Moves(mm, S, j, k) ==
    IF Load(mm, "tokens", j) = STAR /\ Load(mm, "jumpi", j) = 0
    THEN {<<Load(mm, "jumps", j), k, k>>, <<Load(mm, "jumpf", j), k, k>>}
    ELSE IF Matches(CharAt(S, k), Load(mm, "tokens", j), Load(mm, "jumpi", j))
    THEN {<<Load(mm, "jumps", j), k + 1, k + 1>>}
    ELSE IF Load(mm, "jumpi", j) = 1
    THEN {<<Load(mm, "jumpf", j), k, k + 1>>}
    ELSE {<<Load(mm, "jumpf", j), k + 1, k + 1>>}

AllMoves(mm, S, threads) ==
    UNION {Moves(mm, S, t[1], t[2]) : t \in threads}

\* The threads a set of moves leads to: the outer loop ends with the input.
Threads(mm, S, moves) ==
    {<<x[1], x[2]>> :
       x \in {y \in moves : y[1] \in 0 .. mm.n_tokens - 1 /\ y[2] <= Len(S)}}

\* The threads of all paths from the threads of `frontier`.
RECURSIVE Paths(_, _, _, _)
Paths(mm, S, seen, frontier) ==
    IF frontier = {} THEN seen
    ELSE Paths(mm, S, seen \cup frontier,
               Threads(mm, S, AllMoves(mm, S, frontier))
                  \ (seen \cup frontier))

\* The ends of the paths that reach the accept index n_tokens.
AcceptEnds(mm, S) ==
    {x[3] : x \in {y \in AllMoves(mm, S, Paths(mm, S, {}, {<<0, 0>>})) :
                     y[1] = mm.n_tokens}}

(***************************************************************************)
(* C19: match returns the shortest match.  Whenever the call succeeds with *)
(* end e, no path of the compiled program on the input reaches the accept  *)
(* index with an end smaller than e, an accept through a '*' branch at the *)
(* position of a consuming accept included.                                *)
(***************************************************************************)
C19_ShortestMatch ==
    (Returned /\ start >= 0 /\ Count(regex).tokens > 0)
    => \A e \in AcceptEnds(InitMatch(Compile(regex)), string) : e >= end

\* Instruction k has in `odd` the js and jf it has in `even`, exchanged.
Exchanged(odd, even, k) ==
    /\ Load(odd, "jumps", k) = Load(even, "jumpf", k)
    /\ Load(odd, "jumpf", k) = Load(even, "jumps", k)

\* Instruction k has in `odd` the js and jf it has in `even`.
Kept(odd, even, k) ==
    /\ Load(odd, "jumps", k) = Load(even, "jumps", k)
    /\ Load(odd, "jumpf", k) = Load(even, "jumpf", k)

\* Instruction k has in `odd` the exit as js and the jf it has in `even`.
Exits(odd, even, k) ==
    /\ Load(odd, "jumps", k) = EXIT_TOKEN
    /\ Load(odd, "jumpf", k) = Load(even, "jumpf", k)

\* What the turn of the third pass at mm wires, against what it wires with
\* the parity even: every instruction exchanged.
AllExchanged(r, mm, odd, even) ==
    (~odd.ub /\ ~even.ub) => \A w \in Wired(r, mm) : Exchanged(odd, even, w[1])

\* The same, each instruction according to its kind.
ByKind(r, mm, odd, even) ==
    (~odd.ub /\ ~even.ub) =>
        \A w \in Wired(r, mm) :
            IF w[2] = "modifier" THEN Kept(odd, even, w[1])
            ELSE IF w[2] = "interior" THEN Exits(odd, even, w[1])
            ELSE Exchanged(odd, even, w[1])

\* The turns of the third pass made while the parity is odd.
OddHeads(r, mm) == {h \in ThirdPassHeads(r, StartPass(mm)) : h.neg # 0}

(***************************************************************************)
(* C20 as stated: every instruction wired while the negation parity is odd *)
(* has its js and jf exchanged relative to the even-parity rule for the    *)
(* same kind of instruction: literals and '.', interior and last class     *)
(* members, hoisted modifiers of tokens and of groups.  Refuted by the     *)
(* hoisted modifiers and by the interior class members.                    *)
(***************************************************************************)
C20_OddParityExchangesAll ==
    (pc = "third") =>
        \A h \in OddHeads(regex, m) :
            AllExchanged(regex, h, ThirdPassStep(regex, h),
                         ThirdPassStep(regex, [h EXCEPT !.neg = 0]))

(***************************************************************************)
(* C20 amended: under odd parity a literal, a '.', the last member of a    *)
(* class and a token that follows its hoisted modifier have js and jf      *)
(* exchanged relative to the even-parity rule; a hoisted modifier, of a    *)
(* token or of a group, has the js and jf of the even-parity rule; an      *)
(* interior class member has js = -1 and the jf of the even-parity rule,   *)
(* the next member.                                                        *)
(***************************************************************************)
C20_OddParityByKind ==
    (pc = "third") =>
        \A h \in OddHeads(regex, m) :
            ByKind(regex, h, ThirdPassStep(regex, h),
                   ThirdPassStep(regex, [h EXCEPT !.neg = 0]))

C20_NegatedClassWired ==
    /\ pc = "third"
    /\ regex = <<LBRACE, LBRACK, 97, 98, RBRACK, RBRACE>>
    /\ \E h \in OddHeads(regex, m) : <<0, "interior">> \in Wired(regex, h)
    /\ \E h \in OddHeads(regex, m) : <<1, "token">> \in Wired(regex, h)
    /\ Load(ThirdPass(regex, m), "jumps", 0) = EXIT_TOKEN
    /\ Load(ThirdPass(regex, m), "jumpf", 0) = 1
    /\ Load(ThirdPass(regex, m), "jumps", 1) = EXIT_TOKEN
    /\ Load(ThirdPass(regex, m), "jumpf", 1) = 2

(***************************************************************************)
(* The layout of the instructions as the documentation gives it: the       *)
(* token bytes in the order of the pattern, each modifier right before the *)
(* first instruction of the token or group it follows.  A layout is the    *)
(* sequence of the pattern offsets of the instructions.                    *)
(***************************************************************************)

\* The offset of the ) or } that closes a group, scanning from offset q with
\* `depth` groups open inside it.
RECURSIVE GroupEnd(_, _, _)
GroupEnd(r, q, depth) ==
    IF q >= Len(r) THEN q
    ELSE IF InClass(r, q) THEN GroupEnd(r, q + 1, depth)
    ELSE IF CharAt(r, q) \in {LPAREN, LBRACE} THEN GroupEnd(r, q + 1, depth + 1)
    ELSE IF CharAt(r, q) \in {RPAREN, RBRACE}
    THEN IF depth = 0 THEN q ELSE GroupEnd(r, q + 1, depth - 1)
    ELSE GroupEnd(r, q + 1, depth)

\* The offset of the last byte of the token, class or group at offset p.
ItemEnd(r, p) ==
    IF CharAt(r, p) \in {LPAREN, LBRACE} THEN GroupEnd(r, p + 1, 0)
    ELSE IF CharAt(r, p) = LBRACK THEN ClassEnd(r, p + 1)
    ELSE p

RECURSIVE LaySeq(_, _, _)
LayItem(r, p, e) ==
    IF CharAt(r, p) \in {LPAREN, LBRACE} THEN LaySeq(r, p + 1, e)
    ELSE IF CharAt(r, p) = LBRACK THEN [k \in 1 .. e - p - 1 |-> p + k]
    ELSE <<p>>

LayModified(r, p, e, hi) ==
    IF e + 1 < hi /\ CharAt(r, e + 1) \in Modifiers
    THEN <<e + 1>> \o LayItem(r, p, e) \o LaySeq(r, e + 2, hi)
    ELSE LayItem(r, p, e) \o LaySeq(r, e + 1, hi)

LaySeq(r, p, hi) ==
    IF p >= hi THEN <<>> ELSE LayModified(r, p, ItemEnd(r, p), hi)

Layout(r) == LaySeq(r, 0, Len(r))

\* A pattern of the grammar: accepted, well nested, every ']' closes a class
\* and every modifier follows a token, a class or a group.
WellFormed(r) ==
    /\ Count(r).tokens > 0
    /\ WellNested(r)
    /\ \A p \in 0 .. Len(r) - 1 :
         /\ CharAt(r, p) = RBRACK => InClass(r, p)
         /\ (~InClass(r, p) /\ CharAt(r, p) \in Modifiers) =>
               /\ p > 0
               /\ \/ InClass(r, p - 1)
                  \/ CharAt(r, p - 1) \notin Modifiers \cup {LPAREN, LBRACE}

\* The ji the documentation gives the instruction of pattern offset p.
ClassFlag(r, p) ==
    IF ~ClassMember(r, p) THEN 0
    ELSE IF CharAt(r, p + 1) = RBRACK THEN 2 ELSE 1

\* No modifier and no negation outside a class: the instruction after a
\* class is the next one of the layout.
Unmodified(r) ==
    \A p \in 0 .. Len(r) - 1 :
        InClass(r, p) \/ CharAt(r, p) \notin Modifiers \cup {LBRACE}

\* The index of the first instruction after the class of instruction k.
RECURSIVE AfterClass(_, _)
AfterClass(r, k) ==
    IF k > Len(Layout(r)) \/ ~ClassMember(r, Layout(r)[k]) THEN k - 1
    ELSE IF ClassFlag(r, Layout(r)[k]) = 2 THEN k
    ELSE AfterClass(r, k + 1)

(***************************************************************************)
(* C21: after _set_jump on an accepted pattern, ji is 1 exactly for the    *)
(* class members that are not the last of their class, 2 exactly for the   *)
(* last member of each class and 0 for every other instruction, hoisted    *)
(* modifiers included; at even parity (here: in a pattern without          *)
(* modifiers and braces) an interior member has js = the first instruction *)
(* after the class and jf = the next member, the last member has the same  *)
(* js and jf = -1.                                                         *)
(***************************************************************************)
C21_ClassFlags ==
    (pc = "init") =>
       /\ Len(Layout(regex)) = m.n_tokens
       /\ \A k \in 0 .. m.n_tokens - 1 :
            /\ Load(m, "jumpi", k) = ClassFlag(regex, Layout(regex)[k + 1])
            /\ (Unmodified(regex) /\ ClassMember(regex, Layout(regex)[k + 1]))
               => /\ Load(m, "jumps", k) = AfterClass(regex, k + 1)
                  /\ Load(m, "jumpf", k) =
                       IF ClassFlag(regex, Layout(regex)[k + 1]) = 1
                       THEN k + 1 ELSE EXIT_TOKEN

\* C22: after the layout pass the instruction bytes are the T token bytes
\* of the pattern in their original relative order, except that each
\* modifier stands immediately before the first instruction of the token or
\* group it follows, a group's modifier before the modifiers hoisted for
\* the groups and tokens that start at the same place.
C22_Layout ==
    (pc = "third") =>
       /\ Len(Layout(regex)) = m.n_tokens
       /\ \A k \in 0 .. m.n_tokens - 1 :
            Load(m, "tokens", k) = CharAt(regex, Layout(regex)[k + 1])

\* The index of the group opened at offset p: groups are numbered by their
\* openers, left to right.
GroupIndex(r, p) == Cardinality({q \in GroupOpeners(r) : q < p})

\* The instructions (numbered from 1 as in Layout) of the group opened at p.
GroupItems(r, p) ==
    {k \in 1 .. Len(Layout(r)) :
       p < Layout(r)[k] /\ Layout(r)[k] < ItemEnd(r, p)}

\* The index (from 0) of the first instruction after the last instruction
\* of the group opened at p; it is T when the group ends the pattern.
FollowerOf(r, p) ==
    IF GroupItems(r, p) = {} THEN 0
    ELSE CHOOSE k \in GroupItems(r, p) : \A j \in GroupItems(r, p) : j <= k

\* C23: after the layout pass next[g] is, for every group g at any depth,
\* the index in the final instruction array of the first instruction that
\* follows the last instruction of g, and T when there is none; modified
\* groups nested three deep, as in "(((a)*b)*a)*b", are no exception.
C23_GroupNexts ==
    (pc = "third") =>
       \A p \in GroupOpeners(regex) :
          Load(m, "group_nexts", GroupIndex(regex, p)) = FollowerOf(regex, p)

\* Instruction j is marked as being on the current stack.
InCurrent(mm, j) == Load(mm, "incs", j) = 1

\* C24: while one input position is processed each instruction is pushed
\* onto the current stack at most once and executed at most once: a turn
\* of the inner loop pops an instruction that was not executed at this
\* position, leaves no executed instruction on the current stack, and
\* keeps every in-current mark set until the position advances.
C24_OncePerPosition ==
    [][(pc = "scan" /\ pc' = "scan" /\ i' = i) =>
          /\ Load(m, "cstack", ics) \notin ran
          /\ \A k \in 0 .. ics' : Load(m', "cstack", k) \notin ran'
          /\ \A j \in 0 .. m.n_tokens - 1 :
               InCurrent(m, j) => InCurrent(m', j)]_vars

\* Instruction j is an epsilon branch: a '*' outside classes.
Epsilon(mm, j) == Load(mm, "tokens", j) = STAR /\ Load(mm, "jumpi", j) = 0

\* The origin of the thread that executes instruction j at position k.
OriginOf(mm, j, k) ==
    IF Epsilon(mm, j) THEN Origin(j, Load(mm, "active", j), k)
    ELSE Load(mm, "active", j)

\* The destinations that instruction j pushes on character c, and the
\* flags of the stack it pushes them on.
PushedBy(mm, j, c) ==
    IF Epsilon(mm, j) THEN {Load(mm, "jumps", j), Load(mm, "jumpf", j)}
    ELSE IF Matches(c, Load(mm, "tokens", j), Load(mm, "jumpi", j))
    THEN {Load(mm, "jumps", j)}
    ELSE {Load(mm, "jumpf", j)}
PushedOn(mm, j, c) ==
    IF Epsilon(mm, j) THEN "incs"
    ELSE IF Matches(c, Load(mm, "tokens", j), Load(mm, "jumpi", j))
    THEN "inns"
    ELSE IF Load(mm, "jumpi", j) = 1 THEN "incs" ELSE "inns"

\* The push of d by a thread of origin v takes effect: d is marked on the
\* stack and has the origin v.
TakesEffect(mm, flags, d, v) ==
    Load(mm, "active", d) = v /\ Load(mm, flags, d) = 1

\* The push of d has no effect: d keeps its origin and, unless it is the
\* popped instruction j, its marks.
NoEffect(m1, m2, j, d) ==
    /\ Load(m2, "active", d) = Load(m1, "active", d)
    /\ Load(m2, "inns", d) = Load(m1, "inns", d)
    /\ d # j => Load(m2, "incs", d) = Load(m1, "incs", d)

\* C25: a push of d by a thread of origin v takes effect exactly when
\* d >= 0 and v >= origin[d]; no origin ever decreases during a call, so
\* a smaller origin never replaces a larger one.
C25_PushByOrigin ==
    [][(pc = "scan" /\ pc' = "scan" /\ i' = i) =>
          \A d \in 0 .. m.n_tokens - 1 :
             /\ Load(m', "active", d) >= Load(m, "active", d)
             /\ IF /\ d \in PushedBy(m, Load(m, "cstack", ics),
                                     CharAt(string, i))
                   /\ OriginOf(m, Load(m, "cstack", ics), i)
                         >= Load(m, "active", d)
                THEN TakesEffect(m', PushedOn(m, Load(m, "cstack", ics),
                                              CharAt(string, i)),
                                 d, OriginOf(m, Load(m, "cstack", ics), i))
                ELSE NoEffect(m, m', Load(m, "cstack", ics), d)]_vars

\* An instruction executed at this position has a destination whose origin
\* is larger than the origin of its thread: its push was refused.
C25_OlderThreadRefused ==
    /\ pc = "scan"
    /\ \E j \in ran : \E d \in 0 .. m.n_tokens - 1 :
          /\ d \in PushedBy(m, j, CharAt(string, i))
          /\ OriginOf(m, j, i) < Load(m, "active", d)

DotStarABC == <<DOT, STAR, 97, 98, 99>>
StarBC == <<97, STAR, 98, 99>>
GroupStarC == <<LPAREN, 97, 98, RPAREN, STAR, 99>>

Allocated(b) == b # NoBlock

\* C28: every block allocated during a call is released exactly once before
\* the call returns, on every exit path.  The returns for an empty input
\* and for a rejected pattern allocate nothing; _set_jump releases its
\* tables when its third pass ends and nowhere else; the simulator
\* releases the block of match when it returns a match or no match, and
\* nowhere else; a released block is not released or allocated again.
\* Steps that leave a block are not exit paths.
C28_BlocksReleasedOnce ==
    [][(pc' # "undefined") =>
          /\ (pc = "call" /\ pc' = "done")
                => ~Allocated(m.mb) /\ ~Allocated(m.sb)
                      /\ ~Allocated(m'.mb) /\ ~Allocated(m'.sb)
          /\ (pc = "call" /\ pc' = "first")
                => Allocated(m'.mb) /\ Allocated(m'.sb)
          /\ (Allocated(m.sb) /\ ~Allocated(m'.sb))
                <=> (pc = "third" /\ pc' = "init")
          /\ (Allocated(m.mb) /\ ~Allocated(m'.mb))
                <=> (pc = "scan" /\ pc' = "done")
          /\ (pc # "call" /\ ~Allocated(m.sb)) => ~Allocated(m'.sb)
          /\ (pc # "call" /\ ~Allocated(m.mb)) => ~Allocated(m'.mb)
          /\ (pc' = "done") => ~Allocated(m'.mb) /\ ~Allocated(m'.sb)]_vars

\* A call that allocated both blocks has returned "no match".
C28_ReturnedWithoutBlocks ==
    /\ Returned /\ m.n_tokens > 0
    /\ start = EXIT_TOKEN /\ end = 0
    /\ ~Allocated(m.mb) /\ ~Allocated(m.sb)

\* The instructions on a stack whose top is at index top.
OnStack(mm, stack, top) == {Load(mm, stack, k) : k \in 0 .. top}

\* A stack holds no instruction twice, and the marks of its flags are
\* exactly its instructions.
StackAndFlags(mm, stack, top) ==
    /\ Cardinality(OnStack(mm, stack, top)) = top + 1
    /\ \A j \in 0 .. mm.n_tokens - 1 :
          Load(mm, FlagsOf(stack), j) = 1 <=> j \in OnStack(mm, stack, top)

\* What a turn leaves has both stack tops below the length T of a stack:
\* the last write to either stack, that of the accept index included, was
\* below T.
TopsBelow(r) == r.m.ub \/ (r.ics < r.m.n_tokens /\ r.ins < r.m.n_tokens)

\* C29: no instruction occurs twice on the current or on the next stack,
\* the membership bit of an instruction is set exactly when it is on that
\* stack, and every write to a stack, the write of the accept index T
\* before the return included, has an index below T, the length of a
\* stack.
C29_StacksAndBits ==
    (pc = "scan") =>
       /\ StackAndFlags(m, "cstack", ics)
       /\ StackAndFlags(m, "nstack", ins)
       /\ ics < m.n_tokens /\ ins < m.n_tokens
       /\ (/\ ics >= 0
           /\ m.n_tokens \in PushedBy(m, Load(m, "cstack", ics),
                                      CharAt(string, i)))
             => \A u \in {0, 1}, f \in {0, 1} :
                   TopsBelow(PopToken(string, m, i, ics, ins, u, f))

\* Both stacks hold instructions, one of them the same instruction, and the
\* instruction on top of the current stack has a destination that an
\* instruction executed at this position has put on the next stack.
C29_SharedInstruction ==
    /\ pc = "scan" /\ ics >= 1 /\ ins >= 0
    /\ OnStack(m, "cstack", ics) \cap OnStack(m, "nstack", ins) # {}
    /\ \E j \in ran :
          PushedBy(m, j, CharAt(string, i)) \cap OnStack(m, "nstack", ins)
             \cap PushedBy(m, Load(m, "cstack", ics), CharAt(string, i)) # {}

\* C30: every instruction on either stack has an origin in 0 .. i; every
\* match that is returned has 0 <= start <= end <= |S| + 1; and the end is
\* |S| + 1 only when the accepting step is taken at the terminator that
\* ends the input.
C30_OriginsAndRange ==
    /\ []((pc = "scan") =>
            \A j \in OnStack(m, "cstack", ics) \cup OnStack(m, "nstack", ins) :
               0 <= Load(m, "active", j) /\ Load(m, "active", j) <= i)
    /\ []((Returned /\ start >= 0) =>
            (0 <= start /\ start <= end /\ end <= Len(string) + 1))
    /\ [][(pc = "scan" /\ pc' = "done" /\ start' >= 0
             /\ end' = Len(string) + 1)
            => CharAt(string, i) = NUL]_vars

\* A match on an input of MaxStringLen bytes that ends past the input: it
\* was accepted at the terminator, by a thread on the current stack.
C30_AcceptedAtTerminator ==
    /\ Returned /\ start >= 0 /\ Len(string) = MaxStringLen
    /\ end = Len(string) + 1 /\ i = Len(string)

=========================================================================
